---- MODULE Spec2Model ----
(***************************************************************************)
(* Model of the combat-log parser of wow-log-analyzer:                     *)
(*   src/src/parser/cell.rs  cell grammar, event dispatcher, event decoders*)
(*   src/src/parser/mod.rs   line framer and file driver                   *)
(* A &str is a sequence of characters, each character a one-element        *)
(* string.  A parser returns an IResult: Ok (remainder, output), Error     *)
(* (nom's recoverable Err::Error) or Panic (the Rust process aborts).      *)
(***************************************************************************)
EXTENDS Integers, Sequences, FiniteSets, TLC

VARIABLES input, res, pc, elems, alone, lines, num_lines, stdout

vars == <<input, res, pc, elems, alone, lines, num_lines, stdout>>

(***************************************************************************)
(* Characters                                                              *)
(***************************************************************************)
Chars(s) == [i \in 1..Len(s) |-> SubSeq(s, i, i)]

\* The printable ASCII characters, in code point order from 0x20.
\* (The grave accent, 0x60, cannot be written in a TLA+ string.)
Ascii == Chars(" !\"#$%&'()*+,-./0123456789:;<=>?@ABCDEFGHIJKLMNOPQRSTUVWXYZ[\\]^_")
         \o <<"U+0060">>
         \o Chars("abcdefghijklmnopqrstuvwxyz{|}~")

\* One character outside ASCII (U+00E9, two bytes in UTF-8).
EAcute == "U+00E9"

Char == {Ascii[i] : i \in 1..Len(Ascii)} \cup {"\t", "\n", "\r", EAcute}

\* `c as u32`
cv == [c \in Char |->
         CASE c = "\t" -> 9
           [] c = "\n" -> 10
           [] c = "\r" -> 13
           [] c = EAcute -> 233
           [] OTHER -> 31 + (CHOOSE i \in 1..Len(Ascii) : Ascii[i] = c)]

\* Number of bytes of the UTF-8 encoding of c.
len_utf8 == [c \in Char |-> IF cv[c] < 128 THEN 1 ELSE 2]

\* str::len: the length of a &str in bytes (a character has one or two).
len(s) == Len(s) + Cardinality({i \in 1..Len(s) : len_utf8[s[i]] = 2})

Digit == {c \in Char : cv[c] >= 48 /\ cv[c] <= 57}

Alpha == {c \in Char : (cv[c] >= 65 /\ cv[c] <= 90) \/ (cv[c] >= 97 /\ cv[c] <= 122)}

Alphanumeric == Alpha \cup Digit

is_valid_emote == {c \in Char : cv[c] >= 32}

\* is_valid_wrapped that also stops at the structural delimiters.
is_valid_wrapped_no_delimiter ==
    {c \in Char : cv[c] >= 32 /\ cv[c] # 34 /\ cv[c] # 92 /\ cv[c] # 93
                    /\ cv[c] # 44 /\ cv[c] # 41}

is_valid_wrapped == {c \in Char : cv[c] >= 32 /\ cv[c] # 34 /\ cv[c] # 92}

is_valid_unwrapped ==
    {c \in Char : cv[c] >= 32 /\ cv[c] # 34 /\ cv[c] # 92 /\ cv[c] # 93
                    /\ cv[c] # 44 /\ cv[c] # 41}

(***************************************************************************)
(* IResult and the nom combinators the parser uses                         *)
(***************************************************************************)
Ok(rem, out) == [st |-> "Ok", rem |-> rem, out |-> out]

Error(code) == [st |-> "Error", code |-> code]

Panic == [st |-> "Panic"]

\* `let v = x; F(v)`: x is evaluated once and F applied to its value.
Bind(x, F(_)) == CHOOSE r \in {F(v) : v \in {x}} : TRUE

\* The `?` operator and the sequencing of nom's tuple: anything but Ok is
\* returned as it is, an Ok is handed on to F.
Try(x, F(_)) == Bind(x, LAMBDA r : IF r.st # "Ok" THEN r ELSE F(r))

Drop(s, n) == SubSeq(s, n + 1, Len(s))

Take(s, n) == SubSeq(s, 1, n)

\* Number of leading characters of s, counted from position i, that lie in S.
Span(s, i, S) ==
    LET stop == CHOOSE j \in i..(Len(s) + 1) :
                    /\ j = Len(s) + 1 \/ s[j] \notin S
                    /\ \A k \in i..(j - 1) : s[k] \in S
    IN  stop - i

tag(t, s) ==
    IF Len(s) >= Len(t) /\ Take(s, Len(t)) = t
    THEN Ok(Drop(s, Len(t)), t)
    ELSE Error("Tag")

take_while1(S, s, code) ==
    Bind(Span(s, 1, S),
         LAMBDA n : IF n = 0 THEN Error(code) ELSE Ok(Drop(s, n), Take(s, n)))

digit1(s) == take_while1(Digit, s, "Digit")

alphanumeric1(s) == take_while1(Alphanumeric, s, "AlphaNumeric")

(***************************************************************************)
(* Numbers.  i64 keeps its width: a digit run parses only when its value   *)
(* lies in -2^63 .. 2^63 - 1, decided on the digits themselves.            *)
(***************************************************************************)
I64MaxDigits == Chars("9223372036854775807")

I64MinDigits == Chars("9223372036854775808")

RECURSIVE StripZeros(_)
StripZeros(d) == IF Len(d) > 1 /\ Head(d) = "0" THEN StripZeros(Tail(d)) ELSE d

\* a <= b for two digit runs of the same length
RECURSIVE DigitsLeq(_, _)
DigitsLeq(a, b) ==
    IF a = <<>> THEN TRUE
    ELSE IF cv[Head(a)] # cv[Head(b)] THEN cv[Head(a)] < cv[Head(b)]
    ELSE DigitsLeq(Tail(a), Tail(b))

FitsI64(neg, d) ==
    LET c == StripZeros(d)
        lim == IF neg THEN I64MinDigits ELSE I64MaxDigits
    IN  Len(c) < Len(lim) \/ (Len(c) = Len(lim) /\ DigitsLeq(c, lim))

RECURSIVE DigitsValue(_, _)
DigitsValue(d, acc) ==
    IF d = <<>> THEN acc ELSE DigitsValue(Tail(d), 10 * acc + (cv[Head(d)] - 48))

\* str::parse::<i64> on [-]digits
parse_i64(neg, d) ==
    IF FitsI64(neg, d)
    THEN [ok |-> TRUE, v |-> IF neg THEN 0 - DigitsValue(d, 0) ELSE DigitsValue(d, 0)]
    ELSE [ok |-> FALSE]

RECURSIVE StripTrailingZeros(_)
StripTrailingZeros(d) ==
    IF d # <<>> /\ d[Len(d)] = "0" THEN StripTrailingZeros(Take(d, Len(d) - 1)) ELSE d

\* str::parse::<f64> on [-]digits.digits: the value as sign, integer part and
\* fraction digits; -0.0 and 0.0 are equal, as they are for f64's ==.
parse_f64(neg, ip, fp) ==
    LET i == StripZeros(ip)
        f == StripTrailingZeros(fp)
        zero == i = <<"0">> /\ f = <<>>
    IN  [neg |-> neg /\ ~zero, int |-> i, frac |-> f]

F64Zero == [neg |-> FALSE, int |-> <<"0">>, frac |-> <<>>]

(***************************************************************************)
(* LogCell                                                                 *)
(***************************************************************************)
Integer(v) == [t |-> "Integer", v |-> v]

Float(v) == [t |-> "Float", v |-> v]

MultiPowerCell(a, b) == [t |-> "MultiPowerCell", v |-> <<a, b>>]

Str(v) == [t |-> "Str", v |-> v]

Array(v) == [t |-> "Array", v |-> v]

(***************************************************************************)
(* Cell grammar (cell.rs 189-288)                                          *)
(***************************************************************************)
\* map_res(recognize(tuple((opt(char('-')), digit1))), |s| s.parse::<i64>())
parse_integer(s) ==
    LET neg  == s # <<>> /\ s[1] = "-"
        body == IF neg THEN Tail(s) ELSE s
    IN  Try(digit1(body), LAMBDA d :
        Bind(parse_i64(neg, d.out), LAMBDA v :
        IF ~v.ok THEN Error("MapRes") ELSE Ok(d.rem, Integer(v.v))))

\* recognize(tuple((opt(char('-')), digit1, char('.'), digit1))) parsed as f64
parse_float(s) ==
    LET neg  == s # <<>> /\ s[1] = "-"
        body == IF neg THEN Tail(s) ELSE s
    IN  Try(digit1(body), LAMBDA i :
        IF i.rem = <<>> \/ i.rem[1] # "." THEN Error("Char")
        ELSE Try(digit1(Tail(i.rem)), LAMBDA f :
             Ok(f.rem, Float(parse_f64(neg, i.out, f.out)))))

\* tuple((map_res(digit1, str::parse), tag("|"), map_res(digit1, str::parse)))
parse_multi_power(s) ==
    Try(digit1(s), LAMBDA a :
    Bind(parse_i64(FALSE, a.out), LAMBDA av :
    IF ~av.ok THEN Error("MapRes")
    ELSE Try(tag(<<"|">>, a.rem), LAMBDA p :
         Try(digit1(p.rem), LAMBDA b :
         Bind(parse_i64(FALSE, b.out), LAMBDA bv :
         IF ~bv.ok THEN Error("MapRes")
         ELSE Ok(b.rem, MultiPowerCell(av.v, bv.v)))))))

\* alt(..): the first Ok wins, otherwise the error of the last alternative.
alt2(a, b) == Bind(a, LAMBDA r : IF r.st = "Ok" THEN r ELSE b)

\* parse_number with the alternatives in the order Integer, Float, MultiPower.
parse_number_integer_first(s) ==
    alt2(parse_integer(s), alt2(parse_float(s), parse_multi_power(s)))

\* alt((parse_multi_power, parse_float, parse_integer))
parse_number(s) ==
    alt2(parse_multi_power(s), alt2(parse_float(s), parse_integer(s)))

\* delimited(open, take_while1(S), close), mapped to LogCell::Str
delimited_str(open, S, close, s) ==
    Try(tag(open, s), LAMBDA o :
    Try(take_while1(S, o.rem, "TakeWhile1"), LAMBDA b :
    Try(tag(close, b.rem), LAMBDA c :
    Ok(c.rem, Str(b.out)))))

\* &input[0..1] panics on the empty string and when byte 1 is inside a character.
parse_string(s) ==
    IF s = <<>> \/ len_utf8[s[1]] # 1 THEN Panic
    ELSE IF s[1] = "|" THEN delimited_str(<<"|", "T">>, is_valid_emote, <<"!">>, s)
    ELSE IF s[1] = "\"" THEN delimited_str(<<"\"">>, is_valid_wrapped, <<"\"">>, s)
    ELSE Try(take_while1(is_valid_unwrapped, s, "TakeWhile1"), LAMBDA r :
         Ok(r.rem, Str(r.out)))

\* parse_hex with hex_digit1 in the place of alphanumeric1.
HexDigit == Digit \cup {"a", "b", "c", "d", "e", "f", "A", "B", "C", "D", "E", "F"}

parse_hex_hexdigit(s) ==
    Try(tag(<<"0", "x">>, s), LAMBDA p :
    Try(take_while1(HexDigit, p.rem, "HexDigit"), LAMBDA a :
    Ok(a.rem, Str(a.out))))

\* tuple((tag("0x"), alphanumeric1)) mapped by |(_, v)| LogCell::Str(v)
parse_hex(s) ==
    Try(tag(<<"0", "x">>, s), LAMBDA p :
    Try(alphanumeric1(p.rem), LAMBDA a :
    Ok(a.rem, Str(a.out))))

NumberStart == {"0", "1", "2", "3", "4", "5", "6", "7", "8", "-"}

RECURSIVE parse_log_cell(_), parse_array(_, _, _), separated_list0(_)
RECURSIVE SeparatedRest(_, _), SeparatedTurn(_), SeparatedTurns(_, _)

\* The list is still being read: i is what is left, acc the elements so far.
Looping(i, acc) == [st |-> "Loop", rem |-> i, out |-> acc]

\* One turn of the loop of nom's separated_list0/1 after the first element:
\* separator, then element; an Error of either ends the list before the
\* separator, and a panic of the element parser unwinds through it.
SeparatedTurn(l) ==
    IF l.st # "Loop" THEN l
    ELSE Bind(tag(<<",">>, l.rem), LAMBDA sep :
         IF sep.st # "Ok" THEN Ok(l.rem, l.out)
         ELSE Bind(parse_log_cell(sep.rem), LAMBDA e :
              IF e.st = "Panic" THEN Panic
              ELSE IF e.st = "Error" THEN Ok(l.rem, l.out)
              ELSE Looping(e.rem, Append(l.out, e.out))))

\* n turns of the loop, one after the other.
SeparatedTurns(l, n) ==
    IF n = 0 \/ l.st # "Loop" THEN l
    ELSE IF n = 1 THEN SeparatedTurn(l)
    ELSE Bind(SeparatedTurns(l, n \div 2), LAMBDA h : SeparatedTurns(h, n - (n \div 2)))

\* The loop run to its end: a turn consumes a separator and an element, and the
\* turn that finds no separator ends the loop, so Len(i) + 1 turns are enough.
SeparatedRest(i, acc) == SeparatedTurns(Looping(i, acc), Len(i) + 1)

\* separated_list0(tag(","), parse_log_cell)
separated_list0(s) ==
    Bind(parse_log_cell(s), LAMBDA e :
    IF e.st = "Panic" THEN Panic
    ELSE IF e.st = "Error" THEN Ok(s, <<>>)
    ELSE SeparatedRest(e.rem, <<e.out>>))

\* separated_list1(tag(","), parse_log_cell)
separated_list1(s) ==
    Try(parse_log_cell(s), LAMBDA e : SeparatedRest(e.rem, <<e.out>>))

parse_array(s, start_delimiter, end_delimiter) ==
    Try(tag(start_delimiter, s), LAMBDA o :
    Try(separated_list0(o.rem), LAMBDA l :
    Try(tag(end_delimiter, l.rem), LAMBDA c :
    Ok(c.rem, Array(l.out)))))

\* parse_log_cell whose one-character branch has no Number arm: a lone digit
\* falls to parse_string.
parse_log_cell_short_string(s) ==
    IF Len(s) = 1 /\ len(s) = 1
    THEN CASE s[1] = "[" -> parse_array(s, <<"[">>, <<"]">>)
           [] s[1] = "(" -> parse_array(s, <<"(">>, <<")">>)
           [] OTHER -> parse_string(s)
    ELSE IF s = <<>> \/ len_utf8[s[1]] # 1 THEN Panic
    ELSE CASE s[1] = "[" -> parse_array(s, <<"[">>, <<"]">>)
           [] s[1] = "(" -> parse_array(s, <<"(">>, <<")">>)
           [] s[1] = "0" ->
                IF len_utf8[s[2]] # 1 THEN Panic
                ELSE IF s[2] = "x" THEN parse_hex(s)
                ELSE parse_number(s)
           [] s[1] \in NumberStart -> parse_number(s)
           [] OTHER -> parse_string(s)

\* &input[0..1] panics on the empty string and on a first character longer than
\* one byte; &input[0..2] panics when byte 2 is inside the second character.
parse_log_cell(s) ==
    IF Len(s) = 1 /\ len(s) = 1
    THEN CASE s[1] = "[" -> parse_array(s, <<"[">>, <<"]">>)
           [] s[1] = "(" -> parse_array(s, <<"(">>, <<")">>)
           [] s[1] \in NumberStart -> parse_integer(s)
           [] OTHER -> parse_string(s)
    ELSE IF s = <<>> \/ len_utf8[s[1]] # 1 THEN Panic
    ELSE CASE s[1] = "[" -> parse_array(s, <<"[">>, <<"]">>)
           [] s[1] = "(" -> parse_array(s, <<"(">>, <<")">>)
           [] s[1] = "0" ->
                IF len_utf8[s[2]] # 1 THEN Panic
                ELSE IF s[2] = "x" THEN parse_hex(s)
                ELSE parse_number(s)
           [] s[1] \in NumberStart -> parse_number(s)
           [] OTHER -> parse_string(s)

(***************************************************************************)
(* Decoding one cell: the inputs are all strings of at most MaxLen         *)
(* characters over CellAlphabet, and the literals of CellExamples.         *)
(***************************************************************************)
MaxLen == 3

CellAlphabet ==
    {"[", "]", "(", ")", ",", "0", "5", "9", "x", "a", "|", "T", "!", "\"", "-", ".",
     "\n", EAcute}

Strings(A, n) == UNION {[1..k -> A] : k \in 0..n}

CellExamples ==
    {Chars("0xAB12"), Chars("5|3"), Chars("|TInterface/Icons/foo.blp!"),
     Chars("\"a,b\""), Chars("[a,b,c]"), Chars("[[5|3],(0.50,-7)]"),
     Chars("10000000000000000000|3"), Chars("3|10000000000000000000"),
     Chars("-5095.52"), Chars("0000000000000000"), Chars("nil"),
     Chars("\"a\tb\""), Chars("[\"a,b\"]"), Chars("(\"a]b\",\"c)d\")"),
     Chars("[\"a,b\",\"\t\"]")}

CellInputs == Strings(CellAlphabet, MaxLen) \cup CellExamples

None == [st |-> "None"]

InitCell ==
    /\ input \in CellInputs
    /\ res = None
    /\ pc = "call"
    /\ elems = <<>>
    /\ alone = <<>>
    /\ lines = <<>>
    /\ num_lines = 0
    /\ stdout = <<>>

DecodeCell ==
    /\ pc = "call"
    /\ res' = parse_log_cell(input)
    /\ pc' = "ret"
    /\ UNCHANGED <<input, elems, alone, lines, num_lines, stdout>>

NextCell == DecodeCell

SpecCell == InitCell /\ [][NextCell]_vars

DecodedCell == pc = "ret"

\* C3: decode_cell is total: every input, the empty string included, gives
\* (remainder, Cell) or a GrammarError value, and never aborts.
C3_DecodeCellTotal == DecodedCell => res.st \in {"Ok", "Error"}

IsHexLiteral(s) ==
    /\ Len(s) >= 3
    /\ s[1] = "0"
    /\ s[2] = "x"
    /\ \A i \in 3..Len(s) : s[i] \in Alphanumeric

\* C4 (as stated): `0x` followed by one or more alphanumeric characters decodes
\* as a String cell whose content is the whole literal, the `0x` prefix included.
C4_HexKeepsPrefix ==
    (DecodedCell /\ IsHexLiteral(input)) => res = Ok(<<>>, Str(input))

\* C4 (amended): `0x` followed by one or more alphanumeric characters decodes,
\* with empty remainder, as a String cell whose content is the alphanumeric run
\* after the `0x` prefix; the prefix is consumed and is not part of the content.
C4_HexDropsPrefix ==
    (DecodedCell /\ IsHexLiteral(input)) => res = Ok(<<>>, Str(Drop(input, 2)))

C4_Witness ==
    /\ DecodedCell
    /\ input = Chars("0xAB12")
    /\ res = Ok(<<>>, Str(Chars("AB12")))

IsIconPath(s) ==
    /\ Len(s) >= 4
    /\ s[1] = "|"
    /\ s[2] = "T"
    /\ s[Len(s)] = "!"
    /\ \A i \in 3..(Len(s) - 1) : cv[s[i]] >= 32

\* C5: `|T`, a non-empty run of characters with code point >= 0x20 and a
\* terminating `!` decode as a String cell holding the text between them.
C5_IconPathDecodes ==
    (DecodedCell /\ IsIconPath(input))
        => res = Ok(<<>>, Str(SubSeq(input, 3, Len(input) - 1)))

IsDigitsBarDigits(s) ==
    \E k \in 2..(Len(s) - 1) :
        /\ s[k] = "|"
        /\ \A i \in 1..(k - 1) : s[i] \in Digit
        /\ \A i \in (k + 1)..Len(s) : s[i] \in Digit

BarAt(s) == CHOOSE k \in 1..Len(s) : s[k] = "|"

\* C8: `<digits>|<digits>` with first digit 0-8 and both runs within i64
\* decodes as MultiPower((a, b)) with empty remainder, never as Integer(a).
C8_MultiPowerPrecedence ==
    (/\ DecodedCell
     /\ IsDigitsBarDigits(input)
     /\ input[1] # "9"
     /\ FitsI64(FALSE, Take(input, BarAt(input) - 1))
     /\ FitsI64(FALSE, Drop(input, BarAt(input))))
        => res = Ok(<<>>, MultiPowerCell(DigitsValue(Take(input, BarAt(input) - 1), 0),
                                         DigitsValue(Drop(input, BarAt(input)), 0)))

C8_Witness ==
    /\ DecodedCell
    /\ input = Chars("5|3")
    /\ res = Ok(<<>>, MultiPowerCell(5, 3))

(***************************************************************************)
(* Decoding an array literal and, each alone, the literals it is made of.  *)
(***************************************************************************)
MaxElems == 3

\* One literal per alternative of the grammar (the one-character ones take the
\* short branch of parse_log_cell alone), and some that are no complete Cell.
ArrayElements ==
    {Chars("0"), Chars("5"), Chars("9"), Chars("a"), Chars("-7"), Chars("5|3"),
     Chars("0.50"), Chars("0xA"), Chars("\"a,b\""), Chars("[]"), Chars("(5,a)"),
     Chars("-"), Chars("5.")}

RECURSIVE Join(_, _)
Join(ss, sep) ==
    IF ss = <<>> THEN <<>>
    ELSE IF Len(ss) = 1 THEN ss[1]
    ELSE Join(Take(ss, Len(ss) \div 2), sep) \o sep \o Join(Drop(ss, Len(ss) \div 2), sep)

ArrayLiteral(open, es, close) == open \o Join(es, <<",">>) \o close

InitArray ==
    /\ elems \in Strings(ArrayElements, MaxElems)
    /\ \E d \in {<<"[", "]">>, <<"(", ")">>} :
            input = ArrayLiteral(<<d[1]>>, elems, <<d[2]>>)
    /\ res = None
    /\ pc = "alone"
    /\ alone = <<>>
    /\ lines = <<>>
    /\ num_lines = 0
    /\ stdout = <<>>

\* parse_log_cell on each element literal, given alone
DecodeAlone ==
    /\ pc = "alone"
    /\ alone' = [i \in 1..Len(elems) |-> parse_log_cell(elems[i])]
    /\ pc' = "array"
    /\ UNCHANGED <<input, res, elems, lines, num_lines, stdout>>

\* parse_log_cell on the array literal
DecodeArray ==
    /\ pc = "array"
    /\ res' = parse_log_cell(input)
    /\ pc' = "ret"
    /\ UNCHANGED <<input, elems, alone, lines, num_lines, stdout>>

NextArray == DecodeAlone \/ DecodeArray

SpecArray == InitArray /\ [][NextArray]_vars

ValidAlone(r) == r.st = "Ok" /\ r.rem = <<>>

\* C10: an Array literal whose elements are each a valid Cell literal (one that
\* decode_cell consumes completely when given alone) decodes, with empty
\* remainder, to the Array of the elements' standalone decodes.
C10_ArrayOfStandaloneDecodes ==
    (pc = "ret" /\ \A i \in 1..Len(alone) : ValidAlone(alone[i]))
        => res = Ok(<<>>, Array([i \in 1..Len(alone) |-> alone[i].out]))

C10_Witness ==
    /\ pc = "ret"
    /\ elems = <<Chars("5"), Chars("a"), Chars("5|3")>>
    /\ input = Chars("[5,a,5|3]")
    /\ \A i \in 1..3 : ValidAlone(alone[i])
    /\ res = Ok(<<>>, Array(<<Integer(5), Str(<<"a">>), MultiPowerCell(5, 3)>>))

(***************************************************************************)
(* Quoted strings, alone and as the elements of a list (decoding one cell).*)
(***************************************************************************)
\* s is a quote, a non-empty run of characters of S and a quote.
IsQuoted(s, S) ==
    /\ Len(s) >= 3
    /\ s[1] = "\""
    /\ s[Len(s)] = "\""
    /\ \A i \in 2..(Len(s) - 1) : s[i] \in S

Unquote(s) == SubSeq(s, 2, Len(s) - 1)

\* The pieces of m that run from an odd-numbered quote to the next quote.
QuotedItems(m) ==
    LET q == {i \in 1..Len(m) : m[i] = "\""}
        pos == [k \in 1..Cardinality(q) |->
                  CHOOSE i \in q : Cardinality({j \in q : j <= i}) = k]
    IN  [k \in 1..(Cardinality(q) \div 2) |-> SubSeq(m, pos[2 * k - 1], pos[2 * k])]

\* s is a bracketed, comma-separated list of quoted strings over S.
IsQuotedList(s, S) ==
    /\ Len(s) >= 5
    /\ <<s[1], s[Len(s)]>> \in {<<"[", "]">>, <<"(", ")">>}
    /\ LET items == QuotedItems(Unquote(s))
       IN  /\ items # <<>>
           /\ Join(items, <<",">>) = Unquote(s)
           /\ \A k \in 1..Len(items) : IsQuoted(items[k], S)

QuotedCells(s) ==
    LET items == QuotedItems(Unquote(s))
    IN  [k \in 1..Len(items) |-> Str(Unquote(items[k]))]

AnyButQuoteBackslash == Char \ {"\"", "\\"}

VisibleButQuoteBackslash == {c \in Char : cv[c] >= 32} \ {"\"", "\\"}

\* C11 (as stated): a quote, a non-empty run of characters other than `"` and
\* `\` and a closing quote decode as one String cell holding the text between
\* the quotes, commas and closing brackets included; in a comma-separated list
\* each such literal is one cell.
C11_QuotedAnyCharacter ==
    DecodedCell =>
        /\ IsQuoted(input, AnyButQuoteBackslash)
               => res = Ok(<<>>, Str(Unquote(input)))
        /\ IsQuotedList(input, AnyButQuoteBackslash)
               => res = Ok(<<>>, Array(QuotedCells(input)))

\* C11 (amended): a quote, a non-empty run of characters with code point >= 0x20
\* other than `"` and `\` and a closing quote decode as one String cell holding
\* the text between the quotes, commas and closing brackets included; in a
\* comma-separated list each such literal is one cell.
C11_QuotedVisibleCharacters ==
    DecodedCell =>
        /\ IsQuoted(input, VisibleButQuoteBackslash)
               => res = Ok(<<>>, Str(Unquote(input)))
        /\ IsQuotedList(input, VisibleButQuoteBackslash)
               => res = Ok(<<>>, Array(QuotedCells(input)))

C11_Witness ==
    /\ DecodedCell
    /\ input = Chars("(\"a]b\",\"c)d\")")
    /\ IsQuotedList(input, VisibleButQuoteBackslash)
    /\ res = Ok(<<>>, Array(<<Str(Chars("a]b")), Str(Chars("c)d"))>>))

(***************************************************************************)
(* Dispatch on the first character (decoding one cell).                    *)
(***************************************************************************)
IsHexStart(s) == Len(s) >= 2 /\ s[1] = "0" /\ s[2] = "x"

IsNumberCell(c) == c.t \in {"Integer", "Float", "MultiPowerCell"}

\* The characters of an unquoted string: visible, and none of " \ ] , )
UnquotedText == {c \in Char : cv[c] >= 32} \ {"\"", "\\", "]", ",", ")"}

\* The longest prefix of s made of characters of S; s[1] is one of them.
Run(s, S) ==
    CHOOSE n \in 1..Len(s) :
        /\ \A i \in 1..n : s[i] \in S
        /\ n = Len(s) \/ s[n + 1] \notin S

\* C12: an input that starts with a digit 0-8 or `-` (the `0x` case apart) is
\* decoded by the Number alternatives alone, MultiPower, then Float, then
\* Integer, and is a grammar error if none matches; an input that starts
\* with `9` decodes as an unquoted String cell and never as a number.
C12_FirstCharacterDispatch ==
    (DecodedCell /\ input # <<>>) =>
        /\ (input[1] \in NumberStart /\ ~IsHexStart(input))
               => /\ res.st \in {"Ok", "Error"}
                  /\ res.st = "Ok" => IsNumberCell(res.out)
                  /\ res.st = parse_number(input).st
                  /\ res.st = "Ok" => res = parse_number(input)
        /\ input[1] = "9"
               => res = Ok(Drop(input, Run(input, UnquotedText)),
                           Str(Take(input, Run(input, UnquotedText))))



(***************************************************************************)
(* Event decoders and dispatcher (cell.rs 33-43, 290-536)                  *)
(***************************************************************************)
\* impl From<LogCell> for bool, with MultiPowerCell tested on its second element.
bool_from_second(cell) ==
    CASE cell.t = "Integer" -> cell.v # 0
      [] cell.t = "Float" -> cell.v # F64Zero
      [] cell.t = "MultiPowerCell" -> cell.v[2] # 0
      [] cell.t = "Str" -> cell.v # <<>>
      [] cell.t = "Array" -> Len(cell.v) # 0

\* impl From<LogCell> for bool
bool_from(cell) ==
    CASE cell.t = "Integer" -> cell.v # 0
      [] cell.t = "Float" -> cell.v # F64Zero
      [] cell.t = "MultiPowerCell" -> cell.v[1] # 0
      [] cell.t = "Str" -> cell.v # <<>>
      [] cell.t = "Array" -> Len(cell.v) # 0

\* The 28 fields LogSpellCastSuccess, LogSpellDamage and LogSpellHeal begin with.
CommonFields ==
    <<"sourceGUID", "sourceName", "sourceFlags", "sourceRaidFlags", "destGUID",
      "destName", "destFlags", "destRaidFlags", "spellId", "spellName",
      "spellSchool", "unitGUID", "ownerGUID", "currHp", "maxHp", "attackPower",
      "spellPower", "armor", "totalDamageAbsorbs", "resourceType", "currResource",
      "maxResource", "resourceCost", "y", "x", "mapId", "facing", "ilvl">>

DamageFields ==
    CommonFields \o <<"amount", "overkill", "school", "resisted", "blocked",
                      "absorbed", "critical", "glancing", "crushing", "isOffHand">>

HealFields == CommonFields \o <<"amount", "overhealing", "absorbed", "critical">>

\* The struct whose fields, in declaration order `names`, take cols_iter.next()
\* in turn; the last `flags` of them through .into() (bool).
Struct(names, cols, flags) ==
    [f \in {names[i] : i \in 1..Len(names)} |->
        LET i == CHOOSE j \in 1..Len(names) : names[j] = f
        IN  IF i > Len(names) - flags THEN bool_from(cols[i]) ELSE cols[i]]

LogSpellCastSuccess(cols) == Struct(CommonFields, cols, 0)

LogSpellDamage(cols) == Struct(DamageFields, cols, 4)

LogSpellHeal(cols) == Struct(HealFields, cols, 1)

\* tuple((tag(EVENT), tag(","), separated_list1(tag(","), parse_log_cell)))
event_cols(event, s) ==
    Try(tag(event, s), LAMBDA t :
    Try(tag(<<",">>, t.rem), LAMBDA c :
    separated_list1(c.rem)))

\* A wrong count of cells is a panic!.
parse_spell_cast_success_line(s) ==
    Try(event_cols(Chars("SPELL_CAST_SUCCESS"), s), LAMBDA l :
    IF Len(l.out) # 28 THEN Panic
    ELSE Ok(l.rem, LogSpellCastSuccess(l.out)))

\* A wrong count of cells is a panic!.
parse_spell_damage_line(s) ==
    Try(event_cols(Chars("SPELL_DAMAGE"), s), LAMBDA l :
    IF Len(l.out) # 38 THEN Panic
    ELSE Ok(l.rem, LogSpellDamage(l.out)))

\* A wrong count of cells is printed and returned as Err(LengthValue).
parse_spell_heal_line(s) ==
    Try(event_cols(Chars("SPELL_HEAL"), s), LAMBDA l :
    IF Len(l.out) # 33 THEN Error("LengthValue")
    ELSE Ok(l.rem, LogSpellHeal(l.out)))

\* nom::character::complete::not_line_ending
not_line_ending(s) ==
    Bind(Span(s, 1, Char \ {"\r", "\n"}), LAMBDA n :
    IF n = Len(s) THEN Ok(<<>>, s)
    ELSE IF s[n + 1] = "\r" /\ ~(Len(s) >= n + 2 /\ s[n + 2] = "\n")
    THEN Error("Tag")
    ELSE Ok(Drop(s, n), Take(s, n)))

\* take_while1(|c| c != ','), tag(","), four times over, then
\* recognize(not_line_ending): the nine outputs of the tuple, in order.
RECURSIVE emote_pairs(_, _, _)
emote_pairs(s, k, acc) ==
    IF k = 0
    THEN Try(not_line_ending(s), LAMBDA t : Ok(t.rem, Append(acc, t.out)))
    ELSE Try(take_while1(Char \ {","}, s, "TakeWhile1"), LAMBDA f :
         Try(tag(<<",">>, f.rem), LAMBDA c :
         Bind(acc \o <<f.out, c.out>>, LAMBDA more :
         emote_pairs(c.rem, k - 1, more))))

parse_emote_fields(s) == emote_pairs(s, 4, <<>>)

LogEmote(emote_tuple) ==
    [sourceGUID      |-> emote_tuple[1],
     sourcename      |-> emote_tuple[3],
     sourceflags     |-> emote_tuple[5],
     sourceraidflags |-> emote_tuple[7],
     text            |-> emote_tuple[9]]

parse_emote_line(s) ==
    Try(parse_emote_fields(s), LAMBDA r : Ok(r.rem, LogEmote(r.out)))

Row(t, v) == [t |-> t, v |-> v]

NotSupported == [t |-> "NotSupported"]

\* input.split_once(",").unwrap(): the text before the first comma; None
\* (a panic of unwrap) when there is no comma.
split_once(s) ==
    Bind(Span(s, 1, Char \ {","}), LAMBDA n :
    IF n = Len(s) THEN [some |-> FALSE] ELSE [some |-> TRUE, head |-> Take(s, n)])

\* One arm of parse_log_csv: the decoder's Ok wrapped in its LogRow variant,
\* anything else handed on by `?`.
arm(t, r) == Try(r, LAMBDA d : Ok(d.rem, Row(t, d.out)))

\* parse_log_csv choosing the decoder by the tag the body starts with.
StartsWith(s, p) == Len(s) >= Len(p) /\ Take(s, Len(p)) = p

parse_log_csv_prefix(s) ==
    IF ~split_once(s).some THEN Panic
    ELSE CASE StartsWith(s, Chars("EMOTE")) -> arm("Emote", parse_emote_line(s))
           [] StartsWith(s, Chars("SPELL_CAST_SUCCESS")) ->
                arm("SpellCastSuccess", parse_spell_cast_success_line(s))
           [] StartsWith(s, Chars("SPELL_DAMAGE")) ->
                arm("SpellDamage", parse_spell_damage_line(s))
           [] StartsWith(s, Chars("SPELL_HEAL")) ->
                arm("SpellHeal", parse_spell_heal_line(s))
           [] OTHER -> Ok(s, NotSupported)

parse_log_csv(s) ==
    Bind(split_once(s), LAMBDA eventtype :
    IF ~eventtype.some THEN Panic
    ELSE CASE eventtype.head = Chars("EMOTE") -> arm("Emote", parse_emote_line(s))
           [] eventtype.head = Chars("SPELL_CAST_SUCCESS") ->
                arm("SpellCastSuccess", parse_spell_cast_success_line(s))
           [] eventtype.head = Chars("SPELL_DAMAGE") ->
                arm("SpellDamage", parse_spell_damage_line(s))
           [] eventtype.head = Chars("SPELL_HEAL") ->
                arm("SpellHeal", parse_spell_heal_line(s))
           [] OTHER -> Ok(s, NotSupported))

(***************************************************************************)
(* Dispatching one event body.  The bodies are built from the cells of the *)
(* test corpus line (cell.rs 544), cut or padded around each decoder's     *)
(* arity, with the four flag cells of SPELL_DAMAGE drawn from FlagCells.   *)
(***************************************************************************)
TestCorpusLine ==
    Chars("SPELL_DAMAGE,Player-1379-0A9FF58F,\"Yerrog-Sanguino\",0x512,0x0,Creature-0-4252-2515-19964-196102-000550239A,\"Conjured Lasher\",0xa48,0x0,213709,\"Brambles\",0x8,Creature-0-4252-2515-19964-196102-000550239A,0000000000000000,1483954,1952835,0,0,5043,0,1,0,0,0,-5095.52,1142.47,2073,6.1556,70,488,488,-1,8,0,0,0,nil,nil,nil")

\* The comma-separated pieces of s (no piece of the corpus line holds a comma).
SplitComma(s) ==
    LET at  == {i \in 1..Len(s) : s[i] = ","}
        cut == [k \in 0..(Cardinality(at) + 1) |->
                   IF k = 0 THEN 0
                   ELSE IF k = Cardinality(at) + 1 THEN Len(s) + 1
                   ELSE CHOOSE i \in at : Cardinality({j \in at : j < i}) = k - 1]
    IN  [k \in 1..(Cardinality(at) + 1) |-> SubSeq(s, cut[k - 1] + 1, cut[k] - 1)]

CorpusCells == Tail(SplitComma(TestCorpusLine))

\* The first n cells of the corpus line, continued with 0 cells beyond its end.
Cells(n) == [i \in 1..n |-> IF i <= Len(CorpusCells) THEN CorpusCells[i] ELSE <<"0">>]

Body(event, cells) == Join(<<event>> \o cells, <<",">>)

CellTags == {Chars("SPELL_CAST_SUCCESS"), Chars("SPELL_DAMAGE"), Chars("SPELL_HEAL")}

Tags == CellTags \cup {Chars("EMOTE")}

Arity(event) ==
    CASE event = Chars("SPELL_CAST_SUCCESS") -> 28
      [] event = Chars("SPELL_DAMAGE") -> 38
      [] event = Chars("SPELL_HEAL") -> 33

ArityDelta == 1

FlagCells ==
    {Chars("0"), Chars("1"), Chars("nil"), Chars("0.0"), Chars("1.5"), Chars("0|7"),
     Chars("7|0"), Chars("[]"), Chars("[0]")}

UnknownTags ==
    {Chars("UNKNOWN_EVENT"), Chars("SPELL_DAMAGE_SUPPORT"), Chars("SPELL"),
     Chars("emote"), Chars("EMOTES"), Chars("SPELL_HEAL "), Chars("SWING_DAMAGE"),
     <<>>}

\* Bodies around each decoder's arity.
ArityBodies ==
    {Body(t, Cells(n)) :
        t \in CellTags, n \in (28 - ArityDelta)..(38 + ArityDelta)}

\* SPELL_DAMAGE bodies of 38 cells with every choice of the four flag cells.
FlagBodies ==
    {Body(Chars("SPELL_DAMAGE"), Cells(34) \o f) : f \in [1..4 -> FlagCells]}

\* Short bodies, bodies without a comma, bodies with a cell that does not decode.
ShortBodies ==
    {Body(t, c) :
        t \in Tags \cup UnknownTags,
        c \in {<<>>, <<<<>>>>, <<Chars("1"), Chars("2"), Chars("3")>>,
               <<Chars("1"), <<>>, Chars("3")>>, <<Chars("|x"), Chars("2")>>,
               Cells(5), Cells(38)}}

EmoteBodies ==
    {Body(Chars("EMOTE"), <<g, n, f, r, t>>) :
        g \in {Chars("Player-1-ABC"), Chars("0000000000000000")},
        n \in {Chars("\"Thrall\""), Chars("nil")},
        f \in {Chars("0x0"), Chars("0x512")},
        r \in {Chars("0x0")},
        t \in {Chars("Hello there"), Chars("a,b"), Chars("hi\n"), <<>>}}

RowInputs == ArityBodies \cup FlagBodies \cup ShortBodies \cup EmoteBodies

InitRow ==
    /\ input \in RowInputs
    /\ res = None
    /\ pc = "call"
    /\ elems = <<>>
    /\ alone = <<>>
    /\ lines = <<>>
    /\ num_lines = 0
    /\ stdout = <<>>

Dispatch ==
    /\ pc = "call"
    /\ res' = parse_log_csv(input)
    /\ pc' = "ret"
    /\ UNCHANGED <<input, elems, alone, lines, num_lines, stdout>>

NextRow == Dispatch

SpecRow == InitRow /\ [][NextRow]_vars

Dispatched == pc = "ret"

\* The cells decoded from a body that begins with `event` and a comma.
DecodedCols(event, s) == separated_list1(Drop(s, Len(event) + 1))

HasCols(event, s) ==
    StartsWith(s, event \o <<",">>) /\ DecodedCols(event, s).st = "Ok"

\* C2: a body whose decoded cell count differs from the decoder's arity makes
\* the decoder return a decode failure as an error value, without aborting the
\* process; a body with exactly the expected count succeeds.
C2_ArityMismatchIsError ==
    \A t \in CellTags :
        (Dispatched /\ HasCols(t, input))
            => IF Len(DecodedCols(t, input).out) = Arity(t)
               THEN res.st = "Ok"
               ELSE res.st = "Error"

\* Boolean coercion as the specification words it.
Truthy(cell) ==
    CASE cell.t \in {"Integer"} -> ~(cell.v = 0)
      [] cell.t \in {"Float"} -> ~(cell.v.int = <<"0">> /\ cell.v.frac = <<>>)
      [] cell.t \in {"MultiPowerCell"} -> ~(Head(cell.v) = 0)
      [] cell.t \in {"Str"} -> Len(cell.v) > 0
      [] cell.t \in {"Array"} -> Len(cell.v) > 0

\* C7: every SPELL_DAMAGE body with exactly 38 cells decodes, and critical,
\* glancing, crushing, isOffHand are the boolean coercions of cells 35..38; a
\* bare nil is the String nil and coerces to true, so the test corpus line
\* decodes with empty remainder to false, true, true, true.
C7_DamageFlags ==
    LET t == Chars("SPELL_DAMAGE")
        c == DecodedCols(t, input).out
    IN  /\ (Dispatched /\ HasCols(t, input) /\ Len(c) = 38)
              => /\ res.st = "Ok"
                 /\ res.out.t = "SpellDamage"
                 /\ res.out.v.critical = Truthy(c[35])
                 /\ res.out.v.glancing = Truthy(c[36])
                 /\ res.out.v.crushing = Truthy(c[37])
                 /\ res.out.v.isOffHand = Truthy(c[38])
        /\ (Dispatched /\ input = TestCorpusLine)
              => /\ res.st = "Ok"
                 /\ res.rem = <<>>
                 /\ c[36] = Str(Chars("nil"))
                 /\ res.out.v.critical = FALSE
                 /\ res.out.v.glancing = TRUE
                 /\ res.out.v.crushing = TRUE
                 /\ res.out.v.isOffHand = TRUE

C7_Witness ==
    /\ Dispatched
    /\ input = Body(Chars("SPELL_DAMAGE"),
                    Cells(34) \o <<Chars("7|0"), Chars("0|7"), Chars("[]"), Chars("nil")>>)
    /\ res.st = "Ok"
    /\ res.out.v.critical = TRUE
    /\ res.out.v.glancing = FALSE
    /\ res.out.v.crushing = FALSE
    /\ res.out.v.isOffHand = TRUE

IsUnknownBody(s) ==
    /\ \E i \in 1..Len(s) : s[i] = ","
    /\ Take(s, (CHOOSE i \in 1..Len(s) : s[i] = "," /\ \A j \in 1..(i - 1) : s[j] # ",") - 1)
           \notin Tags

\* C9: a body that contains a comma and whose text before the first comma is
\* none of EMOTE, SPELL_CAST_SUCCESS, SPELL_DAMAGE, SPELL_HEAL dispatches to
\* Unsupported, without error, the whole body being returned as the remainder.
C9_UnknownTagUnsupported ==
    (Dispatched /\ IsUnknownBody(input)) => res = Ok(input, NotSupported)

C9_Witness ==
    /\ Dispatched
    /\ input = Chars("UNKNOWN_EVENT,1,2,3")
    /\ res = Ok(Chars("UNKNOWN_EVENT,1,2,3"), NotSupported)

(***************************************************************************)
(* Line framer (mod.rs 53-82)                                              *)
(***************************************************************************)
\* digit1, then for each separator in turn the separator and digit1 again:
\* the outputs of the tuple, separators included, in order.
RECURSIVE digit_fields(_, _, _)
digit_fields(s, seps, acc) ==
    Try(digit1(s), LAMBDA d :
    IF seps = <<>> THEN Ok(d.rem, Append(acc, d.out))
    ELSE Try(tag(<<Head(seps)>>, d.rem), LAMBDA t :
         Bind(acc \o <<d.out, t.out>>, LAMBDA more :
         digit_fields(t.rem, Tail(seps), more))))

\* separated_pair(digit1, tag("/"), digit1)
parse_date(s) ==
    Try(digit_fields(s, <<"/">>, <<>>), LAMBDA r : Ok(r.rem, <<r.out[1], r.out[3]>>))

\* tuple((digit1, tag(":"), digit1, tag(":"), digit1, tag("."), digit1))
parse_time(s) == digit_fields(s, <<":", ":", ".">>, <<>>)

LogEventDateTime(date, time) ==
    [month  |-> date[1],
     day    |-> date[2],
     hour   |-> time[1],
     minute |-> time[3],
     second |-> time[5],
     ms     |-> time[7]]

\* separated_pair(parse_date, tag(" "), parse_time)
parse_date_time(s) ==
    Try(parse_date(s), LAMBDA d :
    Try(tag(<<" ">>, d.rem), LAMBDA b :
    Try(parse_time(b.rem), LAMBDA t :
    Ok(t.rem, LogEventDateTime(d.out, t.out)))))

Framed(rem, dt, row) == [st |-> "Ok", rem |-> rem, dt |-> dt, row |-> row]

\* separated_pair(parse_date_time, tag("  "), parse_log_csv); an Err of any of
\* the three is a panic!, and so is a panic inside parse_log_csv.
parse_line(s) ==
    Bind(Try(parse_date_time(s), LAMBDA dt :
         Try(tag(<<" ", " ">>, dt.rem), LAMBDA sp :
         Try(parse_log_csv(sp.rem), LAMBDA row :
         Framed(row.rem, dt.out, row.out)))),
         LAMBDA parsed_input : IF parsed_input.st # "Ok" THEN Panic ELSE parsed_input)

(***************************************************************************)
(* Framing one line: a timestamp, a separator and an event body.           *)
(***************************************************************************)
Timestamps ==
    {Chars("8/3 20:15:42.123"), Chars("12/31 23:59:59.999"), Chars("8/3 20:15:42"),
     Chars("8-3 20:15:42.123"), <<>>}

Separators == {<<" ", " ">>, <<" ">>}

LineBodies ==
    {b \in EmoteBodies : "\n" \notin {b[i] : i \in 1..Len(b)}}
    \cup ShortBodies
    \cup {Chars("EMOTE,Player-1-ABC,\"Thrall\",0x0,0x0,Hello\rthere")}

LineInputs == {t \o p \o b : t \in Timestamps, p \in Separators, b \in LineBodies}

InitLine ==
    /\ input \in LineInputs
    /\ res = None
    /\ pc = "call"
    /\ elems = <<>>
    /\ alone = <<>>
    /\ lines = <<>>
    /\ num_lines = 0
    /\ stdout = <<>>

FrameLine ==
    /\ pc = "call"
    /\ res' = parse_line(input)
    /\ pc' = "ret"
    /\ UNCHANGED <<input, elems, alone, lines, num_lines, stdout>>

NextLine == FrameLine

SpecLine == InitLine /\ [][NextLine]_vars

\* Where the first run of two spaces begins (0 when there is none).
TwoSpaces(s) ==
    LET at == {i \in 1..(Len(s) - 1) : s[i] = " " /\ s[i + 1] = " "}
    IN  IF at = {} THEN 0 ELSE CHOOSE i \in at : \A j \in at : i <= j

\* A timestamp, two spaces, `EMOTE,` and at least five comma-delimited fields,
\* the first four of them non-empty.
IsEmoteLine(s) ==
    /\ TwoSpaces(s) > 0
    /\ LET ts == parse_date_time(Take(s, TwoSpaces(s) - 1))
           f  == SplitComma(Drop(s, TwoSpaces(s) + 1))
       IN  /\ ts.st = "Ok" /\ ts.rem = <<>>
           /\ Len(f) >= 6
           /\ f[1] = Chars("EMOTE")
           /\ \A i \in 2..5 : f[i] # <<>>
           /\ \A i \in 1..Len(s) : s[i] \notin {"\r", "\n"}

Unquoted(f) ==
    IF Len(f) >= 2 /\ Head(f) = "\"" /\ f[Len(f)] = "\""
    THEN SubSeq(f, 2, Len(f) - 1)
    ELSE f

\* C1: an EMOTE line yields its EventDateTime and an Emote record whose five
\* fields are the five comma-delimited substrings after the `EMOTE,` tag
\* (sourcename without its quote characters, text the free text after the
\* fourth field's comma); the tag is consumed and is never a field.
C1_EmoteFieldsFollowTag ==
    (pc = "ret" /\ IsEmoteLine(input)) =>
        LET f == SplitComma(Drop(input, TwoSpaces(input) + 1))
        IN  /\ res.st = "Ok"
            /\ res.dt = parse_date_time(Take(input, TwoSpaces(input) - 1)).out
            /\ res.row.t = "Emote"
            /\ res.row.v = [sourceGUID      |-> f[2],
                            sourcename      |-> Unquoted(f[3]),
                            sourceflags     |-> f[4],
                            sourceraidflags |-> f[5],
                            text            |-> Join(SubSeq(f, 6, Len(f)), <<",">>)]

(***************************************************************************)
(* File driver (mod.rs 28-50): Parser::parse_file over the lines of a file *)
(***************************************************************************)
MaxLines == 2

FileLines ==
    {Chars("8/3 20:15:42.123  EMOTE,Player-1-ABC,\"Thrall\",0x0,0x0,Hello there"),
     Chars("8/3 20:15:42.200  UNKNOWN_EVENT,1,2,3"),
     Chars("8/3 20:15:42.300  ") \o TestCorpusLine,
     Chars("8/3 20:15:42.400  ") \o Body(Chars("SPELL_HEAL"), Cells(33)),
     Chars("8/3 20:15:42.500  ") \o Body(Chars("SPELL_HEAL"), Cells(33) \o <<Chars("|x")>>),
     Chars("8/3 20:15:42.600  ") \o Body(Chars("SPELL_HEAL"), Cells(32)),
     Chars("8/3 20:15:42.700  ") \o Body(Chars("SPELL_DAMAGE"), Cells(37)),
     Chars("8/3 20:15:42.800  SPELL_DAMAGE,,"),
     Chars("8/3 20:15  EMOTE,Player-1-ABC,\"Thrall\",0x0,0x0,Hello there")}

InitFile ==
    /\ lines \in Strings(FileLines, MaxLines)
    /\ num_lines = 0
    /\ stdout = <<>>
    /\ pc = "loop"
    /\ input = <<>>
    /\ res = None
    /\ elems = <<>>
    /\ alone = <<>>

\* One turn of `for line in reader.lines()`: a panic of parse_line ends the run.
ParseNextLine ==
    /\ pc = "loop"
    /\ num_lines < Len(lines)
    /\ num_lines' = num_lines + 1
    /\ input' = lines[num_lines + 1]
    /\ res' = parse_line(lines[num_lines + 1])
    /\ IF res'.st = "Panic"
       THEN pc' = "panic" /\ stdout' = stdout
       ELSE /\ pc' = "loop"
            /\ stdout' = IF res'.rem # <<>> /\ res'.row # NotSupported
                         THEN Append(stdout, <<"Failed to parse remainder", res'.rem>>)
                         ELSE stdout
    /\ UNCHANGED <<elems, alone, lines>>

\* The loop has run out of lines: println!("Parsed {} lines ...").
Finish ==
    /\ pc = "loop"
    /\ num_lines = Len(lines)
    /\ stdout' = Append(stdout, <<"Parsed", num_lines>>)
    /\ pc' = "done"
    /\ UNCHANGED <<input, res, elems, alone, lines, num_lines>>

NextFile == ParseNextLine \/ Finish

SpecFile == InitFile /\ [][NextFile]_vars

\* C6: one failing line never stops the run: when parse_file has stopped, every
\* line of the file has been fed to the line framer.
C6_RunCoversEveryLine == pc \in {"done", "panic"} => num_lines = Len(lines)
====
